---- MODULE Spec2Model ----
(***************************************************************************)
(* Model of main.py: a Telegram relay bot.  The module-level configuration *)
(* block reads three environment variables, the main block starts a Flask  *)
(* keep-alive thread and a polling Application with two handlers           *)
(* (ping_command and forward_message_handler).                             *)
(*                                                                         *)
(* Optional values (Python None / an unbound global) are sequences of      *)
(* length at most one: None == <<>>, Some(x) == <<x>>.  Environment values *)
(* are strings represented as sequences of one-character strings.          *)
(***************************************************************************)
EXTENDS Integers, Naturals, Sequences, FiniteSets, TLC

(* ---- bounds ---- *)
MaxEvents == 2
MaxRequests == 2

(* ---- optional values ---- *)
None == <<>>
Some(x) == <<x>>
Val(o) == o[1]

(* ---- input domains ---- *)
TokenStrings == {<<"t">>}
SourceStrings == {<<"-", "7">>, <<"7">>, <<"7", "x">>}
DestinationStrings == {<<"7">>, <<>>}
ChatIds == {7, -7}
MsgIds == {55, 56}
UserIds == {42}
Commands == {"none", "ping", "other"}
TransportErrors == {"Forbidden", "TimedOut"}

Optional(S) == {None} \cup {Some(v) : v \in S}

(* os.environ: each key is absent (None) or bound to a string. *)
Environments ==
    { ("TOKEN" :> t) @@ ("GROUP_A_ID" :> a) @@ ("GROUP_B_ID" :> b) :
        t \in Optional(TokenStrings), a \in Optional(SourceStrings),
        b \in Optional(DestinationStrings) }

(* An inbound update: the chat it originated in (optional), its message   *)
(* payload (optional, identified by message_id), the bot command the      *)
(* message starts with ("none" when it is not a command; only a message   *)
(* can be a command) and the sender.                                      *)
Updates ==
    { u \in [effective_chat : Optional(ChatIds), effective_message : Optional(MsgIds),
             command : Commands, effective_user : UserIds] :
        u.effective_message = None => u.command = "none" }

VARIABLES
    env,                  \* os.environ restricted to the three keys
    pc,                   \* position of the main thread
    TOKEN,                \* module globals set by the configuration block
    SOURCE_CHAT_ID,
    DESTINATION_CHAT_ID,
    exit_status,          \* process exit status once the process has ended
    log,                  \* records emitted through logger
    flask,                \* state of the keep-alive server thread
    http_responses,       \* responses served by the Flask route
    handlers,             \* handlers registered on the Application, in order
    hpc,                  \* position of the handler coroutine being run
    cur,                  \* the update that coroutine is handling
    updates,              \* updates processed so far, with the callback chosen
    copy_calls,           \* context.bot.copy_message calls issued
    copy_results,         \* outcome of each finished copy_message call
    replies,              \* reply_text calls issued by ping_command
    escaped               \* exceptions that left a handler callback

vars == <<env, pc, TOKEN, SOURCE_CHAT_ID, DESTINATION_CHAT_ID, exit_status, log,
          flask, http_responses, handlers, hpc, cur, updates, copy_calls,
          copy_results, replies, escaped>>

configVars == <<TOKEN, SOURCE_CHAT_ID, DESTINATION_CHAT_ID>>
botVars == <<handlers, hpc, cur, updates, copy_calls, copy_results, replies, escaped>>

(* ---- int(): whitespace is stripped, one optional sign, then digits ---- *)
DigitVal ==
    ("0" :> 0) @@ ("1" :> 1) @@ ("2" :> 2) @@ ("3" :> 3) @@ ("4" :> 4) @@
    ("5" :> 5) @@ ("6" :> 6) @@ ("7" :> 7) @@ ("8" :> 8) @@ ("9" :> 9)

RECURSIVE Strip(_)
Strip(s) ==
    IF s = <<>> THEN s
    ELSE IF Head(s) = " " THEN Strip(Tail(s))
    ELSE IF s[Len(s)] = " " THEN Strip(SubSeq(s, 1, Len(s) - 1))
    ELSE s

AllDigits(s) == s # <<>> /\ \A i \in 1..Len(s) : s[i] \in DOMAIN DigitVal

RECURSIVE DigitsValue(_)
DigitsValue(s) ==
    IF s = <<>> THEN 0
    ELSE 10 * DigitsValue(SubSeq(s, 1, Len(s) - 1)) + DigitVal[s[Len(s)]]

(* None stands for ValueError, Some(n) for the integer n. *)
int(str) ==
    LET s == Strip(str)
        signed == s # <<>> /\ Head(s) \in {"+", "-"}
        body == IF signed THEN Tail(s) ELSE s
    IN  IF ~AllDigits(body) THEN None
        ELSE IF signed /\ Head(s) = "-" THEN Some(-DigitsValue(body))
        ELSE Some(DigitsValue(body))

(* ---- log records ---- *)
CriticalRecord(detail) ==
    [level |-> "critical", fn |-> "module",
     msg |-> "CRITICAL ERROR: Missing or invalid environment variable", detail |-> detail]

(* str(KeyError(k)) is the quoted key; str(ValueError) from int() quotes the *)
(* literal that failed to parse and does not mention the key.                *)
KeyErrorText(k) == [exc |-> "KeyError", key |-> k]
ValueErrorText(v) == [exc |-> "ValueError", literal |-> v]

FlaskStartedRecord ==
    [level |-> "info", fn |-> "run_flask_server",
     msg |-> "Flask keep-alive server started in a background thread."]

PollingRecord ==
    [level |-> "info", fn |-> "main", msg |-> "Starting Telegram bot polling..."]

PingRecord(user) ==
    [level |-> "info", fn |-> "ping_command",
     msg |-> "Responded to /ping command from user", user |-> user]

NoMessageRecord ==
    [level |-> "warning", fn |-> "forward_message_handler",
     msg |-> "Received an update with no effective message, ignoring."]

SuccessRecord(message_id) ==
    [level |-> "info", fn |-> "forward_message_handler",
     msg |-> "Successfully forwarded message_id", message_id |-> message_id,
     from_chat |-> Val(SOURCE_CHAT_ID)]

FailureRecord(message_id, e) ==
    [level |-> "error", fn |-> "forward_message_handler",
     msg |-> "Failed to forward message_id", message_id |-> message_id, error |-> e]

(* ---- initial state ---- *)
Init ==
    /\ env \in Environments
    /\ pc = "load_config"
    /\ TOKEN = None
    /\ SOURCE_CHAT_ID = None
    /\ DESTINATION_CHAT_ID = None
    /\ exit_status = None
    /\ log = <<>>
    /\ flask = "not_started"
    /\ http_responses = <<>>
    /\ handlers = <<>>
    /\ hpc = "idle"
    /\ cur = None
    /\ updates = <<>>
    /\ copy_calls = <<>>
    /\ copy_results = <<>>
    /\ replies = <<>>
    /\ escaped = <<>>

(* ---- configuration block (module level) ---- *)
(* The first key, in reading order, that raises; None when all three load. *)
FirstFailure ==
    IF env["TOKEN"] = None THEN Some(KeyErrorText("TOKEN"))
    ELSE IF env["GROUP_A_ID"] = None THEN Some(KeyErrorText("GROUP_A_ID"))
    ELSE IF int(Val(env["GROUP_A_ID"])) = None THEN Some(ValueErrorText(Val(env["GROUP_A_ID"])))
    ELSE IF env["GROUP_B_ID"] = None THEN Some(KeyErrorText("GROUP_B_ID"))
    ELSE IF int(Val(env["GROUP_B_ID"])) = None THEN Some(ValueErrorText(Val(env["GROUP_B_ID"])))
    ELSE None

(* exit() with no argument raises SystemExit(None): the status is 0. *)
ExitCall == 0

LoadConfig ==
    /\ pc = "load_config"
    /\ IF FirstFailure = None
       THEN /\ TOKEN' = env["TOKEN"]
            /\ SOURCE_CHAT_ID' = int(Val(env["GROUP_A_ID"]))
            /\ DESTINATION_CHAT_ID' = int(Val(env["GROUP_B_ID"]))
            /\ pc' = "main"
            /\ UNCHANGED <<log, exit_status>>
       ELSE /\ TOKEN' = env["TOKEN"]
            /\ SOURCE_CHAT_ID' =
                   IF env["TOKEN"] = None \/ env["GROUP_A_ID"] = None THEN None
                   ELSE int(Val(env["GROUP_A_ID"]))
            /\ DESTINATION_CHAT_ID' = None
            /\ log' = Append(log, CriticalRecord(Val(FirstFailure)))
            /\ exit_status' = Some(ExitCall)
            /\ pc' = "exited"
    /\ UNCHANGED <<env, flask, http_responses, botVars>>

(* ---- keep-alive server ---- *)
home_degraded ==
    IF \E i \in 1..Len(copy_results) : copy_results[i] # "ok" THEN ""
    ELSE "Telegram Forwarder Bot is alive and running!"

home == "Telegram Forwarder Bot is alive and running!"

(* Flask turns a string return value into a 200 response with that body.   *)
(* failures_before records how many copies had failed when it was served.  *)
Respond(body) ==
    [status |-> 200, body |-> body,
     failures_before |-> Cardinality({i \in 1..Len(copy_results) : copy_results[i] # "ok"})]

run_flask_server ==
    /\ pc = "main"
    /\ flask' = "starting"
    /\ log' = Append(log, FlaskStartedRecord)
    /\ pc' = "build"
    /\ UNCHANGED <<env, configVars, exit_status, http_responses, botVars>>

(* server.run in the background thread: the bind succeeds ... *)
FlaskListen ==
    /\ flask = "starting"
    /\ flask' = "listening"
    /\ UNCHANGED <<env, pc, configVars, exit_status, log, http_responses, botVars>>

(* ... or fails (port 8080 in use); the thread dies, the main thread goes on. *)
FlaskBindFails ==
    /\ flask = "starting"
    /\ flask' = "failed"
    /\ UNCHANGED <<env, pc, configVars, exit_status, log, http_responses, botVars>>

HttpGet ==
    /\ flask = "listening"
    /\ Len(http_responses) < MaxRequests
    /\ http_responses' = Append(http_responses, Respond(home))
    /\ UNCHANGED <<env, pc, configVars, exit_status, log, flask, botVars>>

(* ---- main block: application and handlers ---- *)
(* filters.COMMAND: the message starts with a bot command. *)
IsCommand(update) == update.effective_message # None /\ update.command # "none"

(* CommandHandler("ping", ...) *)
PingFilter(update) == update.effective_message # None /\ update.command = "ping"

RelayFilter_all(update) == TRUE

(* filters.ALL & ~filters.COMMAND *)
RelayFilter(update) == ~IsCommand(update)

RegisteredHandlers ==
    << [filter |-> "ping", callback |-> "ping_command"],
       [filter |-> "relay", callback |-> "forward_message_handler"] >>

BuildApplication ==
    /\ pc = "build"
    /\ handlers' = RegisteredHandlers
    /\ pc' = "run_polling"
    /\ UNCHANGED <<env, configVars, exit_status, log, flask, http_responses,
                   hpc, cur, updates, copy_calls, copy_results, replies, escaped>>

run_polling ==
    /\ pc = "run_polling"
    /\ log' = Append(log, PollingRecord)
    /\ pc' = "polling"
    /\ UNCHANGED <<env, configVars, exit_status, flask, http_responses, botVars>>

(* All handlers sit in one group: the first whose filter accepts the update *)
(* gets it, and no other handler of the group is tried.                     *)
Accepts(h, update) ==
    IF h.filter = "ping" THEN PingFilter(update) ELSE RelayFilter(update)

Route(update) ==
    LET hits == {i \in 1..Len(handlers) : Accepts(handlers[i], update)}
    IN  IF hits = {} THEN "none"
        ELSE handlers[CHOOSE i \in hits : \A j \in hits : i <= j].callback

(* ---- ping_command ---- *)
PingReplyText == "Pong! I am alive and running."

ping_command(update) ==
    /\ replies' = Append(replies, [user |-> update.effective_user, text |-> PingReplyText])
    /\ hpc' = "awaiting_reply"
    /\ cur' = Some(update)
    /\ UNCHANGED <<log, copy_calls, copy_results, escaped>>

PingReplyReturns ==
    /\ hpc = "awaiting_reply"
    /\ log' = Append(log, PingRecord(Val(cur).effective_user))
    /\ hpc' = "idle"
    /\ cur' = None
    /\ UNCHANGED <<env, pc, configVars, exit_status, flask, http_responses,
                   handlers, updates, copy_calls, copy_results, replies, escaped>>

(* reply_text raises: ping_command has no try block, the exception leaves it. *)
PingReplyRaises(e) ==
    /\ hpc = "awaiting_reply"
    /\ escaped' = Append(escaped, [callback |-> "ping_command", error |-> e])
    /\ hpc' = "idle"
    /\ cur' = None
    /\ UNCHANGED <<env, pc, configVars, exit_status, log, flask, http_responses,
                   handlers, updates, copy_calls, copy_results, replies>>

(* ---- forward_message_handler ---- *)
NotFromSource_chatless(update) == update.effective_chat = None

NotFromSource(update) ==
    update.effective_chat = None \/ Val(update.effective_chat) # Val(SOURCE_CHAT_ID)

CopyArgs_swapped(message_id) ==
    [chat_id |-> Val(SOURCE_CHAT_ID), from_chat_id |-> Val(DESTINATION_CHAT_ID),
     message_id |-> message_id]

CopyArgs(message_id) ==
    [chat_id |-> Val(DESTINATION_CHAT_ID), from_chat_id |-> Val(SOURCE_CHAT_ID),
     message_id |-> message_id]

IgnoreUpdate ==
    /\ UNCHANGED <<log, copy_calls, hpc, cur>>

WarnNoMessage_silent ==
    /\ UNCHANGED <<log, copy_calls, hpc, cur>>

WarnNoMessage ==
    /\ log' = Append(log, NoMessageRecord)
    /\ UNCHANGED <<copy_calls, hpc, cur>>

IssueCopy_logsEarly(update) ==
    /\ copy_calls' = Append(copy_calls, CopyArgs(Val(update.effective_message)))
    /\ log' = Append(log, SuccessRecord(Val(update.effective_message)))
    /\ hpc' = "awaiting_copy"
    /\ cur' = Some(update)

IssueCopy(update) ==
    /\ copy_calls' = Append(copy_calls, CopyArgs(Val(update.effective_message)))
    /\ hpc' = "awaiting_copy"
    /\ cur' = Some(update)
    /\ UNCHANGED log

(* Up to the await of copy_message. *)
forward_message_handler(update) ==
    /\ IF NotFromSource(update) THEN IgnoreUpdate
       ELSE IF update.effective_message = None THEN WarnNoMessage
       ELSE IssueCopy(update)
    /\ UNCHANGED <<copy_results, replies, escaped>>

CopyReturns ==
    /\ hpc = "awaiting_copy"
    /\ copy_results' = Append(copy_results, "ok")
    /\ log' = Append(log, SuccessRecord(Val(Val(cur).effective_message)))
    /\ hpc' = "idle"
    /\ cur' = None
    /\ UNCHANGED <<env, pc, configVars, exit_status, flask, http_responses,
                   handlers, updates, copy_calls, replies, escaped>>

CopyRaises_propagates(e) ==
    /\ hpc = "awaiting_copy"
    /\ copy_results' = Append(copy_results, e)
    /\ escaped' = Append(escaped, [callback |-> "forward_message_handler", error |-> e])
    /\ hpc' = "idle"
    /\ cur' = None
    /\ UNCHANGED <<env, pc, configVars, exit_status, log, flask, http_responses,
                   handlers, updates, copy_calls, replies>>

CopyRaises_retries(e) ==
    /\ hpc = "awaiting_copy"
    /\ copy_results' = Append(copy_results, e)
    /\ log' = Append(log, FailureRecord(Val(Val(cur).effective_message), e))
    /\ copy_calls' = Append(copy_calls, copy_calls[Len(copy_calls)])
    /\ hpc' = "idle"
    /\ cur' = None
    /\ UNCHANGED <<env, pc, configVars, exit_status, flask, http_responses,
                   handlers, updates, replies, escaped>>

(* except Exception: the error is logged and the handler returns. *)
CopyRaises(e) ==
    /\ hpc = "awaiting_copy"
    /\ copy_results' = Append(copy_results, e)
    /\ log' = Append(log, FailureRecord(Val(Val(cur).effective_message), e))
    /\ hpc' = "idle"
    /\ cur' = None
    /\ UNCHANGED <<env, pc, configVars, exit_status, flask, http_responses,
                   handlers, updates, copy_calls, replies, escaped>>

(* ---- the polling loop hands one update at a time to its handler ---- *)
ProcessUpdate(update) ==
    /\ pc = "polling"
    /\ hpc = "idle"
    /\ Len(updates) < MaxEvents
    /\ updates' = Append(updates, [update |-> update, callback |-> Route(update)])
    /\ CASE Route(update) = "ping_command" -> ping_command(update)
         [] Route(update) = "forward_message_handler" -> forward_message_handler(update)
         [] OTHER -> UNCHANGED <<log, hpc, cur, copy_calls, copy_results, replies, escaped>>
    /\ UNCHANGED <<env, pc, configVars, exit_status, flask, http_responses, handlers>>

(* run_polling returns when the process is signalled; the script then ends *)
(* and the daemon thread ends with it.                                     *)
Terminate ==
    /\ pc = "polling"
    /\ hpc = "idle"
    /\ pc' = "exited"
    /\ exit_status' = Some(0)
    /\ flask' = "stopped"
    /\ UNCHANGED <<env, configVars, log, http_responses, botVars>>

Next ==
    \/ LoadConfig
    \/ run_flask_server
    \/ FlaskListen
    \/ FlaskBindFails
    \/ HttpGet
    \/ BuildApplication
    \/ run_polling
    \/ \E update \in Updates : ProcessUpdate(update)
    \/ PingReplyReturns
    \/ \E e \in TransportErrors : PingReplyRaises(e)
    \/ CopyReturns
    \/ \E e \in TransportErrors : CopyRaises(e)
    \/ Terminate

Spec == Init /\ [][Next]_vars

(* ======================= properties ======================= *)

(* The step hands a new update to a callback. *)
Dispatched == Len(updates') = Len(updates) + 1
Latest == updates'[Len(updates')]
ToRelay(d) == d.callback = "forward_message_handler"
FromSourceChat(u) == u.effective_chat # None /\ u.effective_chat[1] = SOURCE_CHAT_ID[1]
HasPayload(u) == u.effective_message # None
OneRecordAdded == Len(log') = Len(log) + 1 /\ SubSeq(log', 1, Len(log)) = log

(* C1: an update given to forward_message_handler whose chat is absent or *)
(* is not the source chat causes no copy_message call and no log record,  *)
(* and the handler is finished at once, whatever was handled before.      *)
C1_OtherChatIgnored ==
    [][ (Dispatched /\ ToRelay(Latest) /\ ~FromSourceChat(Latest.update))
          => (copy_calls' = copy_calls /\ log' = log /\ hpc' = "idle") ]_vars

C1_Witness ==
    /\ Len(updates) = 2
    /\ Len(copy_calls) = 1
    /\ ToRelay(updates[2])
    /\ updates[2].update.effective_chat # None
    /\ updates[2].update.effective_chat[1] # SOURCE_CHAT_ID[1]
    /\ updates[2].update.effective_message # None
    /\ hpc = "idle"

(* C2: an update from the source chat that carries a message causes       *)
(* exactly one copy_message call, with chat_id the destination,           *)
(* from_chat_id the source and message_id that message's id; no further   *)
(* call is made while or after that call completes.                       *)
C2_OneCopyWithArgs ==
    [][ /\ (Dispatched /\ ToRelay(Latest) /\ FromSourceChat(Latest.update)
              /\ HasPayload(Latest.update))
            => copy_calls' = Append(copy_calls,
                   [chat_id |-> DESTINATION_CHAT_ID[1],
                    from_chat_id |-> SOURCE_CHAT_ID[1],
                    message_id |-> Latest.update.effective_message[1]])
        /\ ~Dispatched => copy_calls' = copy_calls ]_vars

C2_Witness ==
    /\ copy_calls = << [chat_id |-> 7, from_chat_id |-> -7, message_id |-> 56] >>
    /\ hpc = "idle"

(* C3: when copy_message raises, the handler ends normally (nothing       *)
(* leaves forward_message_handler, polling goes on), and a later update   *)
(* from the source chat with a message still gets its copy_message call.  *)
C3_FailureSwallowed ==
    [][ /\ (hpc = "awaiting_copy" /\ hpc' # "awaiting_copy")
            => (hpc' = "idle" /\ pc' = "polling" /\ escaped' = escaped)
        /\ ((\E i \in 1..Len(copy_results) : copy_results[i] # "ok")
              /\ Dispatched /\ ToRelay(Latest) /\ FromSourceChat(Latest.update)
              /\ HasPayload(Latest.update))
            => (/\ Len(copy_calls') = Len(copy_calls) + 1
                /\ copy_calls'[Len(copy_calls')].message_id
                      = Latest.update.effective_message[1]) ]_vars

C3_Witness ==
    /\ Len(copy_results) >= 1
    /\ copy_results[1] # "ok"
    /\ Len(copy_calls) = 2
    /\ escaped = <<>>
    /\ pc = "polling"

(* C4: an update from the source chat without a message causes no         *)
(* copy_message call and exactly one warning record, and the handler      *)
(* returns normally.                                                      *)
C4_NoPayloadWarns ==
    [][ (Dispatched /\ ToRelay(Latest) /\ FromSourceChat(Latest.update)
          /\ ~HasPayload(Latest.update))
          => (/\ copy_calls' = copy_calls
              /\ OneRecordAdded
              /\ log'[Len(log')].level = "warning"
              /\ hpc' = "idle"
              /\ escaped' = escaped) ]_vars

C4_Witness ==
    /\ Len(updates) >= 1
    /\ ToRelay(updates[Len(updates)])
    /\ FromSourceChat(updates[Len(updates)].update)
    /\ updates[Len(updates)].update.effective_message = None
    /\ log[Len(log)].level = "warning"

(* The keys whose value is absent or, for the two chat ids, not an integer. *)
OffendingKeys ==
    {k \in {"TOKEN", "GROUP_A_ID", "GROUP_B_ID"} : env[k] = None}
    \cup {k \in {"GROUP_A_ID", "GROUP_B_ID"} : env[k] # None /\ int(env[k][1]) = None}

CriticalRecords == {i \in 1..Len(log) : log[i].level = "critical"}
ComponentRunning == flask \in {"starting", "listening"} \/ pc = "polling"

(* C5: with a missing or non-integer variable the process logs one        *)
(* critical record naming an offending key and ends with neither the      *)
(* keep-alive server nor polling started; no component ever runs with a   *)
(* configuration that is not fully loaded.                                *)
C5_ConfigErrorNamedAndFatal ==
    /\ (OffendingKeys # {} /\ pc # "load_config")
         => (/\ pc = "exited"
             /\ flask = "not_started"
             /\ Cardinality(CriticalRecords) = 1
             /\ \A i \in CriticalRecords :
                   log[i].detail.exc = "KeyError" /\ log[i].detail.key \in OffendingKeys)
    /\ ComponentRunning
         => (TOKEN # None /\ SOURCE_CHAT_ID # None /\ DESTINATION_CHAT_ID # None)

(* C6: after a configuration error the exit status is not zero, so it     *)
(* differs from that of a normal end of the process.                      *)
C6_ConfigErrorExitsNonZero ==
    (OffendingKeys # {} /\ pc = "exited") => (exit_status # None /\ exit_status[1] # 0)

(* C7: a command is never copied: an update that is a command, the source *)
(* chat included, is not given to forward_message_handler and causes no   *)
(* copy_message call, and /ping is given to ping_command alone.           *)
C7_CommandsNotCopied ==
    [][ /\ (Dispatched /\ HasPayload(Latest.update) /\ Latest.update.command # "none")
            => (/\ ~ToRelay(Latest)
                /\ copy_calls' = copy_calls
                /\ Latest.update.command = "ping"
                     => (Latest.callback = "ping_command" /\ hpc' = "awaiting_reply"))
        /\ hpc = "awaiting_reply" => copy_calls' = copy_calls ]_vars

C7_Witness ==
    /\ Len(updates) = 2
    /\ updates[1].update.command = "ping"
    /\ FromSourceChat(updates[1].update)
    /\ updates[2].update.command = "other"
    /\ FromSourceChat(updates[2].update)
    /\ Len(replies) = 1
    /\ copy_calls = <<>>

(* C8: every response of the keep-alive route has status 200 and the same *)
(* non-empty body, whether served before or after relay events and after  *)
(* failed copies.                                                         *)
C8_LivenessConstant ==
    \A i \in 1..Len(http_responses) :
        /\ http_responses[i].status = 200
        /\ http_responses[i].body # ""
        /\ http_responses[i].body = http_responses[1].body

C8_Witness ==
    /\ Len(http_responses) = 2
    /\ http_responses[1].failures_before = 0
    /\ http_responses[2].failures_before >= 1
    /\ updates # <<>>

(* C9: the copy_message calls issued are exactly, in order and with       *)
(* repetitions, the updates from the source chat with a message that were *)
(* handled: nothing is retried and nothing is deduplicated.               *)
C9_NoRetryNoDedup ==
    LET Relayed(d) == ToRelay(d) /\ FromSourceChat(d.update) /\ HasPayload(d.update)
        M == SelectSeq(updates, Relayed)
    IN  /\ Len(copy_calls) = Len(M)
        /\ \A j \in 1..Len(M) :
              copy_calls[j].message_id = M[j].update.effective_message[1]

C9_Witness ==
    /\ Len(updates) = 2
    /\ updates[1] = updates[2]
    /\ Len(copy_calls) = 2
    /\ Len(copy_results) = 2
    /\ copy_results[1] # "ok"

(* C10: a copy attempt is logged once, when the call has finished: an     *)
(* info record with the message id and the source id exactly when it      *)
(* returned, an error record with the message id and the error exactly    *)
(* when it raised; nothing is logged while the call is pending.           *)
C10_OutcomeLogged ==
    [][ /\ hpc' = "awaiting_copy" => log' = log
        /\ (hpc = "awaiting_copy" /\ hpc' # "awaiting_copy")
            => (/\ Len(copy_results') = Len(copy_results) + 1
                /\ OneRecordAdded
                /\ LET r == log'[Len(log')]
                        outcome == copy_results'[Len(copy_results')]
                        call == copy_calls[Len(copy_calls)]
                    IN  /\ r.fn = "forward_message_handler"
                        /\ r.message_id = call.message_id
                        /\ (outcome = "ok") <=> (r.level = "info")
                        /\ (outcome # "ok") <=> (r.level = "error")
                        /\ r.level = "info" => r.from_chat = SOURCE_CHAT_ID[1]
                        /\ r.level = "error" => r.error = outcome) ]_vars

C10_Witness ==
    /\ Len(log) >= 2
    /\ log[Len(log) - 1].fn = "forward_message_handler"
    /\ log[Len(log) - 1].level = "error"
    /\ log[Len(log)].fn = "forward_message_handler"
    /\ log[Len(log)].level = "info"
    /\ copy_results = << log[Len(log) - 1].error, "ok" >>

====
